---- MODULE Spec2Model ----
(***************************************************************************)
(* A model of the fs-index crate: the content-addressed ResourceIndex      *)
(* (src/fs-index/src/index.rs), its build / update_all operations, the     *)
(* scanner they call and the filesystem they read.                         *)
(*                                                                         *)
(* Paths are sequences of components, as std::path::Path is.  An absolute  *)
(* path starts with the component "/", a relative one does not.            *)
(* Time is counted in ticks of half a millisecond.                         *)
(***************************************************************************)
EXTENDS Integers, Sequences, FiniteSets, TLC

VARIABLES fs, path_to_resource, id_to_paths, last,
          index_file, store_pc, stored,
          channel, watch_pc, quiet, closed, out

vars == <<fs, path_to_resource, id_to_paths, last,
          index_file, store_pc, stored,
          channel, watch_pc, quiet, closed, out>>

(***************************************************************************)
(* Bounds of the model                                                     *)
(***************************************************************************)
\* the largest last-modified time (in ticks) a file can carry
MaxTime == 2

Times == 0..MaxTime

\* file contents: byte sequences; <<>> is the zero-byte file
Contents == {<<>>, <<1>>, <<2>>}

NoFile == [kind |-> "none", content |-> <<>>, modified |-> 0]

File(c, t) == [kind |-> "file", content |-> c, modified |-> t]

\* the canonicalised root directory /r
Root == <<"/", "r">>

RelPaths == {<<"a">>, <<"b">>, <<"d", "c">>, <<".h">>}

\* what the environment writes to each path: a takes every content at every
\* time, the other paths one content at one time
Writes(p) ==
    IF p = <<"a">> THEN {File(c, t) : c \in Contents, t \in Times}
    ELSE {File(<<1>>, 0)}

\* the file names of the model that begin with '.'
DotNames == {".h", ".ark"}

(***************************************************************************)
(* Paths                                                                   *)
(***************************************************************************)
join(base, rel) == base \o rel

is_prefix(base, path) ==
    /\ Len(base) <= Len(path)
    /\ SubSeq(path, 1, Len(base)) = base

\* Path::strip_prefix: Err when base is not a prefix of path
strip_prefix(path, base) ==
    IF is_prefix(base, path)
    THEN [ok |-> TRUE, val |-> SubSeq(path, Len(base) + 1, Len(path))]
    ELSE [ok |-> FALSE, val |-> <<>>]

\* the file at an absolute path of the filesystem fsys (none outside root)
file_at(fsys, path) ==
    LET rel == strip_prefix(path, Root)
    IN  IF rel.ok /\ rel.val \in DOMAIN fsys THEN fsys[rel.val] ELSE NoFile

map_remove(m, k) == [x \in DOMAIN m \ {k} |-> m[x]]

map_insert(m, k, v) == [x \in DOMAIN m \cup {k} |-> IF x = k THEN v ELSE m[x]]

EmptyMap == [x \in {} |-> 0]

\* the orders in which the elements of S can be visited
Orders(S) ==
    {o \in [1..Cardinality(S) -> S] : \A i, j \in DOMAIN o : o[i] = o[j] => i = j}

(***************************************************************************)
(* Hasher and time                                                         *)
(***************************************************************************)
\* Duration::from_millis, in ticks of half a millisecond
from_millis(ms) == ms + ms

RESOURCE_UPDATED_THRESHOLD == from_millis(1)

\* the content id of a byte sequence: deterministic, one byte wide here
from_bytes(bytes) ==
    <<((IF bytes = <<>> THEN 0 ELSE bytes[1]) * 17 + 3) % 256>>

from_path(fsys, path) == from_bytes(file_at(fsys, path).content)

(***************************************************************************)
(* Scanner: should_index is utils.rs; discover_paths and scan_entries are  *)
(* called by build and update_all, which strip the root from their keys:   *)
(* the scan is keyed by absolute paths (specification, 4.2)                *)
(***************************************************************************)
\* mutant: every entry is indexed
should_index_all(file_name) == TRUE

should_index(file_name) == file_name \notin DotNames

\* the regular files below root that no hidden component leads to
discover_paths(fsys, root) ==
    {join(root, p) : p \in {q \in DOMAIN fsys :
        /\ fsys[q].kind = "file"
        /\ \A i \in 1..Len(q) : should_index(q[i])}}

IndexedResource(id, path, last_modified) ==
    [id |-> id, path |-> path, last_modified |-> last_modified]

IndexEntry(id, last_modified) == [id |-> id, last_modified |-> last_modified]

\* absolute path -> IndexedResource, zero-byte files skipped
scan_entries(fsys, paths) ==
    [path \in {q \in paths : Len(file_at(fsys, q).content) > 0} |->
        IndexedResource(from_path(fsys, path), path,
                        file_at(fsys, path).modified)]

(***************************************************************************)
(* ResourceIndex::build                                                    *)
(***************************************************************************)
RECURSIVE build_loop(_, _)
build_loop(st, entries) ==
    IF st.panicked \/ DOMAIN entries = {} THEN st
    ELSE LET path == CHOOSE q \in DOMAIN entries : TRUE
             rest == map_remove(entries, path)
             rel == strip_prefix(path, st.root)
         IN  IF ~rel.ok THEN [st EXCEPT !.panicked = TRUE]
             ELSE LET resource == IndexEntry(entries[path].id,
                                             entries[path].last_modified)
                      old == IF resource.id \in DOMAIN st.id_to_paths
                             THEN st.id_to_paths[resource.id] ELSE {}
                  IN  build_loop(
                        [st EXCEPT
                           !.id_to_paths =
                               map_insert(@, resource.id, old \cup {rel.val}),
                           !.path_to_resource =
                               map_insert(@, rel.val, resource)],
                        rest)

build(fsys, root_path) ==
    LET paths == discover_paths(fsys, root_path)
        entries == scan_entries(fsys, paths)
    IN  build_loop([root |-> root_path, id_to_paths |-> EmptyMap,
                    path_to_resource |-> EmptyMap, panicked |-> FALSE],
                   entries)

(***************************************************************************)
(* ResourceIndex::update_all                                               *)
(***************************************************************************)
\* current_entries whose key is also a key of previous_entries
preserved_entries(current_entries, previous_entries) ==
    [path \in {q \in DOMAIN current_entries : q \in DOMAIN previous_entries}
        |-> previous_entries[path]]

created_entries(current_entries, preserved) ==
    [path \in {q \in DOMAIN current_entries : q \notin DOMAIN preserved}
        |-> current_entries[path]]

\* the filter of updated_entries on one preserved path:
\* "panic" | "keep" | "drop"
was_updated(fsys, self_p2r, path, entry, unreadable) ==
    IF path \notin DOMAIN self_p2r THEN "panic"
    ELSE LET prev_modified == self_p2r[path].last_modified
             metadata == file_at(fsys, entry.path)
         IN  IF entry.path \in unreadable \/ metadata.kind = "none"
             THEN "drop"
             ELSE LET curr_modified == metadata.modified
                  IN  IF curr_modified < prev_modified THEN "panic"
                      ELSE IF curr_modified - prev_modified
                                >= RESOURCE_UPDATED_THRESHOLD
                           THEN "keep" ELSE "drop"

updated_entries(fsys, self_p2r, current_entries, preserved, unreadable) ==
    LET verdict(path) ==
            was_updated(fsys, self_p2r, path, current_entries[path], unreadable)
        cand == DOMAIN current_entries \cap DOMAIN preserved
    IN  [panicked |-> \E q \in cand : verdict(q) = "panic",
         entries |-> [path \in {q \in cand : verdict(q) = "keep"}
                        |-> current_entries[path]]]

\* mutant: the filter inverted, so that no entry is taken for removal
removed_entries_inverted(previous_entries, preserved) ==
    [path \in {q \in DOMAIN previous_entries : q \in DOMAIN preserved}
        |-> previous_entries[path]]

removed_entries(previous_entries, preserved) ==
    [path \in {q \in DOMAIN previous_entries : q \notin DOMAIN preserved}
        |-> previous_entries[path]]

\* mutant: an id left without paths is kept as a key
drop_id_never(st, id) == st

\* mutant: an id left without paths is dropped but not reported as removed
drop_id_unreported(st, id) ==
    IF st.id_to_paths[id] = {}
    THEN [st EXCEPT !.id_to_paths = map_remove(@, id)]
    ELSE st

\* "Only remove the ID if it has no paths", and report it as removed
drop_id_if_empty(st, id) ==
    IF st.id_to_paths[id] = {}
    THEN [st EXCEPT !.id_to_paths = map_remove(@, id),
                    !.removed = @ \cup {id}]
    ELSE st

\* the removal loop over removed_entries (todo)
RECURSIVE remove_loop(_, _)
remove_loop(st, todo) ==
    IF st.panicked \/ DOMAIN todo = {} THEN st
    ELSE LET path == CHOOSE q \in DOMAIN todo : TRUE
             resource == todo[path]
             rest == map_remove(todo, path)
             st1 == [st EXCEPT !.path_to_resource = map_remove(@, path)]
         IN  IF resource.id \notin DOMAIN st.id_to_paths
             THEN [st1 EXCEPT !.panicked = TRUE]
             ELSE remove_loop(
                    drop_id_if_empty(
                        [st1 EXCEPT !.id_to_paths[resource.id] = @ \ {path}],
                        resource.id),
                    rest)

\* mutant: the created entries are not chained to the updated ones
added_entries_updated_only(updated, created, self_p2r) ==
    [path \in {q \in DOMAIN updated : q \notin DOMAIN self_p2r} |-> updated[path]]

added_entries(updated, created, self_p2r) ==
    LET both == [path \in DOMAIN updated \cup DOMAIN created |->
                    IF path \in DOMAIN created THEN created[path]
                    ELSE updated[path]]
    IN  [path \in {q \in DOMAIN both : q \notin DOMAIN self_p2r} |-> both[path]]

\* the insertion loop: added_entries (todo) is visited in the order its
\* keys have in `order`, the iteration order of the hash map
RECURSIVE insert_loop(_, _, _, _)
insert_loop(st, todo, order, i) ==
    IF st.panicked \/ i > Len(order) THEN st
    ELSE IF order[i] \notin DOMAIN todo THEN insert_loop(st, todo, order, i + 1)
    ELSE LET path == order[i]
             rel == strip_prefix(path, st.root)
         IN  IF ~rel.ok THEN [st EXCEPT !.panicked = TRUE]
             ELSE LET resource == IndexedResource(todo[path].id, rel.val,
                                                  todo[path].last_modified)
                      index_entry_resource ==
                          IndexEntry(resource.id, resource.last_modified)
                      old == IF resource.id \in DOMAIN st.id_to_paths
                             THEN st.id_to_paths[resource.id] ELSE {}
                  IN  insert_loop(
                        [st EXCEPT
                           !.path_to_resource =
                               map_insert(@, rel.val, index_entry_resource),
                           !.id_to_paths =
                               map_insert(@, resource.id, old \cup {rel.val}),
                           !.added = map_insert(@, resource.id, resource),
                           !.inserted = @ \cup {rel.val}],
                        todo, order, i + 1)

\* update_all on the index (root, self_p2r, self_i2p) against fsys.
\* unreadable: the absolute paths whose metadata cannot be read;
\* order: the iteration order of the scanned paths.
update_all(fsys, root, self_p2r, self_i2p, unreadable, order) ==
    LET current_paths == discover_paths(fsys, root)
        current_entries == scan_entries(fsys, current_paths)
        previous_entries == self_p2r
        preserved == preserved_entries(current_entries, previous_entries)
        created == created_entries(current_entries, preserved)
        updated == updated_entries(fsys, self_p2r, current_entries,
                                   preserved, unreadable)
        st0 == [root |-> root, path_to_resource |-> self_p2r,
                id_to_paths |-> self_i2p, added |-> EmptyMap,
                removed |-> {}, inserted |-> {},
                panicked |-> updated.panicked]
        st1 == remove_loop(st0, removed_entries(previous_entries, preserved))
        to_add == added_entries(updated.entries, created, st1.path_to_resource)
    IN  insert_loop(st1, to_add, order, 1)

(***************************************************************************)
(* Queries: len, resources, get_resources_by_id, collisions,               *)
(* num_collisions                                                          *)
(***************************************************************************)
None == [some |-> FALSE, val |-> <<>>]
Some(v) == [some |-> TRUE, val |-> v]

len(p2r) == Cardinality(DOMAIN p2r)

\* the vector pushed while iterating over the paths of a hash map or set
RECURSIVE push_each(_, _)
push_each(p2r, paths) ==
    IF paths = {} THEN <<>>
    ELSE LET path == CHOOSE q \in paths : TRUE
         IN  <<IndexedResource(p2r[path].id, path, p2r[path].last_modified)>>
             \o push_each(p2r, paths \ {path})

resources(p2r) == push_each(p2r, DOMAIN p2r)

\* mutant: an unknown id gives an empty vector instead of None
get_resources_by_id_or_default(p2r, i2p, id) ==
    IF id \notin DOMAIN i2p THEN Some(<<>>)
    ELSE IF \E path \in i2p[id] : path \notin DOMAIN p2r THEN None
    ELSE Some(push_each(p2r, i2p[id]))

get_resources_by_id(p2r, i2p, id) ==
    IF id \notin DOMAIN i2p THEN None
    ELSE IF \E path \in i2p[id] : path \notin DOMAIN p2r THEN None
    ELSE Some(push_each(p2r, i2p[id]))

collisions(i2p) ==
    [id \in {k \in DOMAIN i2p : Cardinality(i2p[k]) > 1} |-> i2p[id]]

RECURSIVE sum_len(_, _)
sum_len(m, ids) ==
    IF ids = {} THEN 0
    ELSE LET id == CHOOSE k \in ids : TRUE
         IN  Cardinality(m[id]) + sum_len(m, ids \ {id})

\* mutant: the colliding ids are counted, not their paths
num_collisions_ids(i2p) ==
    Cardinality({k \in DOMAIN i2p : Cardinality(i2p[k]) > 1})

num_collisions(i2p) ==
    sum_len(i2p, {k \in DOMAIN i2p : Cardinality(i2p[k]) > 1})

(***************************************************************************)
(* Track API: track_addition, track_removal, track_modification            *)
(* (the methods are declared by the documentation of ResourceIndex and     *)
(* used by the tests; they follow the table of the specification, 4.3)     *)
(***************************************************************************)
TrackResult(err, p2r, i2p) ==
    [err |-> err, path_to_resource |-> p2r, id_to_paths |-> i2p]

\* insert relative_path with the entry into both maps
insert_entry(p2r, i2p, relative_path, entry) ==
    LET old == IF entry.id \in DOMAIN i2p THEN i2p[entry.id] ELSE {}
    IN  TrackResult("none",
                    map_insert(p2r, relative_path, entry),
                    map_insert(i2p, entry.id, old \cup {relative_path}))

\* remove relative_path from both maps, dropping an id left without paths
remove_entry(p2r, i2p, relative_path) ==
    LET id == p2r[relative_path].id
        left == IF id \in DOMAIN i2p THEN i2p[id] \ {relative_path} ELSE {}
    IN  TrackResult("none",
                    map_remove(p2r, relative_path),
                    IF left = {} THEN map_remove(i2p, id)
                    ELSE map_insert(i2p, id, left))

\* mutant: the path is inserted into path_to_resource only
track_addition_by_path_only(fsys, root, p2r, i2p, relative_path) ==
    LET file == file_at(fsys, join(root, relative_path))
    IN  IF file.kind = "none" THEN TrackResult("NotFound", p2r, i2p)
        ELSE IF Len(file.content) = 0 THEN TrackResult("Empty", p2r, i2p)
        ELSE IF relative_path \in DOMAIN p2r
        THEN TrackResult("AlreadyIndexed", p2r, i2p)
        ELSE TrackResult("none",
                 map_insert(p2r, relative_path,
                     IndexEntry(from_bytes(file.content), file.modified)),
                 i2p)

\* mutant: a zero-byte file is indexed like any other
track_addition_of_empty(fsys, root, p2r, i2p, relative_path) ==
    LET file == file_at(fsys, join(root, relative_path))
    IN  IF file.kind = "none" THEN TrackResult("NotFound", p2r, i2p)
        ELSE IF relative_path \in DOMAIN p2r
        THEN TrackResult("AlreadyIndexed", p2r, i2p)
        ELSE insert_entry(p2r, i2p, relative_path,
                          IndexEntry(from_bytes(file.content), file.modified))

\* the file is checked first ("checks if the file exists in the file
\* system"), then the index
track_addition(fsys, root, p2r, i2p, relative_path) ==
    LET file == file_at(fsys, join(root, relative_path))
    IN  IF file.kind = "none" THEN TrackResult("NotFound", p2r, i2p)
        ELSE IF Len(file.content) = 0 THEN TrackResult("Empty", p2r, i2p)
        ELSE IF relative_path \in DOMAIN p2r
        THEN TrackResult("AlreadyIndexed", p2r, i2p)
        ELSE insert_entry(p2r, i2p, relative_path,
                          IndexEntry(from_bytes(file.content), file.modified))

\* mutant: the path leaves path_to_resource only
track_removal_by_path_only(fsys, root, p2r, i2p, relative_path) ==
    LET file == file_at(fsys, join(root, relative_path))
    IN  IF file.kind # "none" THEN TrackResult("StillExists", p2r, i2p)
        ELSE IF relative_path \notin DOMAIN p2r
        THEN TrackResult("NotIndexed", p2r, i2p)
        ELSE TrackResult("none", map_remove(p2r, relative_path), i2p)

\* mutant: the file is not looked at
track_removal_unchecked(fsys, root, p2r, i2p, relative_path) ==
    IF relative_path \notin DOMAIN p2r
    THEN TrackResult("NotIndexed", p2r, i2p)
    ELSE remove_entry(p2r, i2p, relative_path)

track_removal(fsys, root, p2r, i2p, relative_path) ==
    LET file == file_at(fsys, join(root, relative_path))
    IN  IF file.kind # "none" THEN TrackResult("StillExists", p2r, i2p)
        ELSE IF relative_path \notin DOMAIN p2r
        THEN TrackResult("NotIndexed", p2r, i2p)
        ELSE remove_entry(p2r, i2p, relative_path)

\* mutant: a path that is not indexed is added
track_modification_or_addition(fsys, root, p2r, i2p, relative_path) ==
    IF relative_path \notin DOMAIN p2r
    THEN track_addition(fsys, root, p2r, i2p, relative_path)
    ELSE LET file == file_at(fsys, join(root, relative_path))
         IN  IF file.kind = "none" THEN TrackResult("NotFound", p2r, i2p)
             ELSE IF Len(file.content) = 0
             THEN TrackResult("Empty", p2r, i2p)
             ELSE LET gone == remove_entry(p2r, i2p, relative_path)
                  IN  track_addition(fsys, root, gone.path_to_resource,
                                     gone.id_to_paths, relative_path)

\* mutant: the file is hashed again only when its time has advanced by
\* the threshold of update_all
track_modification_thresholded(fsys, root, p2r, i2p, relative_path) ==
    LET file == file_at(fsys, join(root, relative_path))
    IN  IF relative_path \notin DOMAIN p2r
        THEN TrackResult("NotIndexed", p2r, i2p)
        ELSE IF file.kind = "none" THEN TrackResult("NotFound", p2r, i2p)
        ELSE IF Len(file.content) = 0 THEN TrackResult("Empty", p2r, i2p)
        ELSE IF file.modified - p2r[relative_path].last_modified
                    < RESOURCE_UPDATED_THRESHOLD
        THEN TrackResult("none", p2r, i2p)
        ELSE LET gone == remove_entry(p2r, i2p, relative_path)
             IN  track_addition(fsys, root, gone.path_to_resource,
                                gone.id_to_paths, relative_path)

\* mutant: the old entry is removed before the file is looked at, and
\* stays removed when track_addition fails
track_modification_remove_first(fsys, root, p2r, i2p, relative_path) ==
    IF relative_path \notin DOMAIN p2r
    THEN TrackResult("NotIndexed", p2r, i2p)
    ELSE LET gone == remove_entry(p2r, i2p, relative_path)
         IN  track_addition(fsys, root, gone.path_to_resource,
                            gone.id_to_paths, relative_path)

track_modification(fsys, root, p2r, i2p, relative_path) ==
    LET file == file_at(fsys, join(root, relative_path))
    IN  IF relative_path \notin DOMAIN p2r
        THEN TrackResult("NotIndexed", p2r, i2p)
        ELSE IF file.kind = "none" THEN TrackResult("NotFound", p2r, i2p)
        ELSE IF Len(file.content) = 0 THEN TrackResult("Empty", p2r, i2p)
        ELSE LET gone == remove_entry(p2r, i2p, relative_path)
             IN  track_addition(fsys, root, gone.path_to_resource,
                                gone.id_to_paths, relative_path)

(***************************************************************************)
(* Text forms: the hex form of an id (blake3.rs), paths and times as the   *)
(* JSON document of the specification, 6, writes them.  A string is the    *)
(* sequence of its bytes: an ASCII character is one of them, a character   *)
(* outside ASCII a leading byte and a continuation byte.  A path component *)
(* counts as one character.                                                *)
(***************************************************************************)
Ok(v) == [ok |-> TRUE, val |-> v]
Err(e) == [ok |-> FALSE, val |-> e]
\* the thread panics
Panic == [ok |-> FALSE, val |-> "panic"]

\* the two bytes of a character outside ASCII
Utf8Lead == "<c3>"
Utf8Continuation == "<a9>"

\* str::is_char_boundary: index counts bytes from 0
is_char_boundary(s, index) ==
    \/ index = 0
    \/ index = Len(s)
    \/ index < Len(s) /\ s[index + 1] # Utf8Continuation

HexDigits ==
    <<"0", "1", "2", "3", "4", "5", "6", "7",
      "8", "9", "a", "b", "c", "d", "e", "f">>
UpperDigits == <<"A", "B", "C", "D", "E", "F">>

\* mutant: "{:x}", a byte below 16 is written as one digit
hex_byte_unpadded(byte) ==
    IF byte < 16 THEN <<HexDigits[byte + 1]>>
    ELSE <<HexDigits[(byte \div 16) + 1], HexDigits[(byte % 16) + 1]>>

\* write!(f, "{:02x}", byte)
hex_byte(byte) == <<HexDigits[(byte \div 16) + 1], HexDigits[(byte % 16) + 1]>>

\* Display for Hash
RECURSIVE to_string(_)
to_string(bytes) ==
    IF bytes = <<>> THEN <<>>
    ELSE hex_byte(Head(bytes)) \o to_string(Tail(bytes))

\* char::to_digit: the value of the digit c, or -1
to_digit(c, radix) ==
    LET v == IF \E i \in 1..16 : HexDigits[i] = c
             THEN (CHOOSE i \in 1..16 : HexDigits[i] = c) - 1
             ELSE IF \E i \in 1..6 : UpperDigits[i] = c
             THEN (CHOOSE i \in 1..6 : UpperDigits[i] = c) + 9
             ELSE -1
    IN  IF v < radix THEN v ELSE -1

RECURSIVE digits_value(_, _, _)
digits_value(digits, radix, acc) ==
    IF digits = <<>> THEN acc
    ELSE digits_value(Tail(digits), radix,
                      acc * radix + to_digit(Head(digits), radix))

\* u8::from_str_radix: an optional leading plus sign, then digits
from_str_radix(src, radix) ==
    LET digits == IF src # <<>> /\ Head(src) = "+" THEN Tail(src) ELSE src
    IN  IF digits = <<>> THEN Err("Parse")
        ELSE IF \E i \in 1..Len(digits) : to_digit(digits[i], radix) < 0
        THEN Err("Parse")
        ELSE IF digits_value(digits, radix, 0) > 255 THEN Err("Parse")
        ELSE Ok(digits_value(digits, radix, 0))

\* mutant: the digits are read as decimal
from_str_decimal(s) ==
    IF Len(s) % 2 # 0 THEN Err("Parse")
    ELSE IF \E i \in 0..(Len(s) \div 2 - 1) :
              ~from_str_radix(SubSeq(s, 2 * i + 1, 2 * i + 2), 10).ok
    THEN Err("Parse")
    ELSE Ok([i \in 1..(Len(s) \div 2) |->
                from_str_radix(SubSeq(s, 2 * i - 1, 2 * i), 10).val])

\* the loop of from_str: &s[2 * i..2 * i + 2] panics when it cuts a
\* character, from_str_radix fails on what is not a number
RECURSIVE from_str_loop(_, _, _)
from_str_loop(s, i, result) ==
    IF i = Len(s) \div 2 THEN Ok(result)
    ELSE IF ~is_char_boundary(s, 2 * i) \/ ~is_char_boundary(s, 2 * i + 2)
    THEN Panic
    ELSE LET byte == from_str_radix(SubSeq(s, 2 * i + 1, 2 * i + 2), 16)
         IN  IF ~byte.ok THEN Err("Parse")
             ELSE from_str_loop(s, i + 1, Append(result, byte.val))

\* FromStr for Hash
from_str(s) ==
    IF Len(s) % 2 # 0 THEN Err("Parse")
    ELSE from_str_loop(s, 0, <<>>)

\* a path as a string: the components joined by "/"
RECURSIVE path_to_str(_)
path_to_str(path) ==
    IF Len(path) <= 1 THEN path
    ELSE IF Head(path) = "/" THEN <<"/">> \o path_to_str(Tail(path))
    ELSE <<Head(path), "/">> \o path_to_str(Tail(path))

is_component(c) == c # "/"

\* a string as a path: split at "/", a leading "/" is the root component
str_to_path(s) ==
    IF s # <<>> /\ Head(s) = "/"
    THEN <<"/">> \o SelectSeq(Tail(s), is_component)
    ELSE SelectSeq(s, is_component)

\* a time as { secs_since_epoch, nanos_since_epoch } and back
TicksPerSec == from_millis(1000)
NanosPerTick == 500000
ser_time(t) ==
    [secs_since_epoch |-> t \div TicksPerSec,
     nanos_since_epoch |-> (t % TicksPerSec) * NanosPerTick]
de_time(r) ==
    r.secs_since_epoch * TicksPerSec + r.nanos_since_epoch \div NanosPerTick

(***************************************************************************)
(* Persistence: the document at <root>/.ark/index, store (index.rs),       *)
(* load_index and load_or_build_index (utils.rs)                           *)
(***************************************************************************)
NoDoc == [root |-> <<>>, by_path |-> EmptyMap, by_id |-> EmptyMap]
AbsentFile == [kind |-> "absent", doc |-> NoDoc]
EmptyFile == [kind |-> "empty", doc |-> NoDoc]
PartialFile == [kind |-> "partial", doc |-> NoDoc]
CompleteFile(doc) == [kind |-> "complete", doc |-> doc]

\* the document of an index
to_json(root, p2r, i2p) ==
    [root |-> path_to_str(root),
     by_path |->
        [s \in {path_to_str(p) : p \in DOMAIN p2r} |->
            LET p == CHOOSE q \in DOMAIN p2r : path_to_str(q) = s
            IN  [id |-> to_string(p2r[p].id), path |-> s,
                 last_modified |-> ser_time(p2r[p].last_modified)]],
     by_id |->
        [h \in {to_string(k) : k \in DOMAIN i2p} |->
            LET k == CHOOSE j \in DOMAIN i2p : to_string(j) = h
            IN  {path_to_str(p) : p \in i2p[k]}]]

\* the index of a document; Parse when an id is not hex
from_json(doc) ==
    IF \/ \E s \in DOMAIN doc.by_path : ~from_str(doc.by_path[s].id).ok
       \/ \E h \in DOMAIN doc.by_id : ~from_str(h).ok
    THEN [ok |-> FALSE, root |-> <<>>, path_to_resource |-> EmptyMap,
          id_to_paths |-> EmptyMap]
    ELSE [ok |-> TRUE,
          root |-> str_to_path(doc.root),
          path_to_resource |->
            [p \in {str_to_path(s) : s \in DOMAIN doc.by_path} |->
                LET s == CHOOSE t \in DOMAIN doc.by_path : str_to_path(t) = p
                IN  IndexEntry(from_str(doc.by_path[s].id).val,
                               de_time(doc.by_path[s].last_modified))],
          id_to_paths |->
            [k \in {from_str(h).val : h \in DOMAIN doc.by_id} |->
                LET h == CHOOSE g \in DOMAIN doc.by_id : from_str(g).val = k
                IN  {str_to_path(s) : s \in doc.by_id[h]}]]

\* store: the states the index file goes through, File::create truncating
\* it, to_writer_pretty writing into it, and the document complete
store(root, p2r, i2p) ==
    <<EmptyFile, PartialFile, CompleteFile(to_json(root, p2r, i2p))>>

\* the file store leaves when it returns
stored_file(root, p2r, i2p) == store(root, p2r, i2p)[3]

load_index(file) ==
    IF file.kind # "complete"
    THEN [ok |-> FALSE, root |-> <<>>, path_to_resource |-> EmptyMap,
          id_to_paths |-> EmptyMap]
    ELSE from_json(file.doc)

LoadResult(ok, index, file, ran) ==
    [ok |-> ok, root |-> index.root,
     path_to_resource |-> index.path_to_resource,
     id_to_paths |-> index.id_to_paths, file |-> file, ran |-> ran]

\* mutant: the updated index is returned without being stored
load_or_build_index_unsaved(fsys, root_path, file, update, order) ==
    IF file.kind # "absent"
    THEN LET index == load_index(file)
         IN  IF ~index.ok THEN LoadResult(FALSE, index, file, <<"load_index">>)
             ELSE IF update
             THEN LET st == update_all(fsys, index.root,
                                       index.path_to_resource,
                                       index.id_to_paths, {}, order)
                  IN  LoadResult(~st.panicked, st, file,
                                 <<"load_index", "update_all", "store">>)
             ELSE LoadResult(TRUE, index, file, <<"load_index">>)
    ELSE LET index == build(fsys, root_path)
         IN  LoadResult(~index.panicked, index,
                        stored_file(index.root, index.path_to_resource,
                                    index.id_to_paths),
                        <<"build", "store">>)

\* ran: the calls made, in order; file: the index file afterwards
load_or_build_index(fsys, root_path, file, update, order) ==
    IF file.kind # "absent"
    THEN LET index == load_index(file)
         IN  IF ~index.ok THEN LoadResult(FALSE, index, file, <<"load_index">>)
             ELSE IF update
             THEN LET st == update_all(fsys, index.root,
                                       index.path_to_resource,
                                       index.id_to_paths, {}, order)
                  IN  LoadResult(~st.panicked, st,
                                 IF st.panicked THEN file
                                 ELSE stored_file(st.root, st.path_to_resource,
                                                  st.id_to_paths),
                                 <<"load_index", "update_all", "store">>)
             ELSE LoadResult(TRUE, index, file, <<"load_index">>)
    ELSE LET index == build(fsys, root_path)
         IN  LoadResult(~index.panicked, index,
                        IF index.panicked THEN file
                        ELSE stored_file(index.root, index.path_to_resource,
                                         index.id_to_paths),
                        <<"build", "store">>)

(***************************************************************************)
(* Watcher: watch_index and async_watcher (watch.rs).  A notification is   *)
(* what the callback sends: Ok(event) or Err.                              *)
(***************************************************************************)
ARK_FOLDER == ".ark"
INDEX_PATH == "index"

Event(kind, paths, rescan) ==
    [ok |-> TRUE, kind |-> kind, paths |-> paths, rescan |-> rescan]

\* Err(e) sent by the callback
WatcherError == [ok |-> FALSE, kind |-> "Other", paths |-> <<>>,
                 rescan |-> FALSE]

need_rescan(event) == event.rescan

\* mutant: no event is one of .ark
in_ark_folder_never(event, ark_folder) == FALSE

\* event.paths.iter().any(|p| p.starts_with(&ark_folder))
in_ark_folder(event, ark_folder) ==
    \E i \in 1..Len(event.paths) : is_prefix(ark_folder, event.paths[i])

\* mutant: every kind is kept
is_kept_any(kind) == TRUE

\* the kinds the match lets through
is_kept(kind) ==
    kind \in {"ModifyData", "ModifyName", "CreateFile", "RemoveFile"}

\* update_one(relative_path): the path is all it is given; it removes the
\* entry of a file that is gone, re-indexes an indexed file and adds a new
\* one
update_one(fsys, root, p2r, i2p, relative_path) ==
    IF file_at(fsys, join(root, relative_path)).kind = "none"
    THEN track_removal(fsys, root, p2r, i2p, relative_path)
    ELSE IF relative_path \in DOMAIN p2r
    THEN track_modification(fsys, root, p2r, i2p, relative_path)
    ELSE track_addition(fsys, root, p2r, i2p, relative_path)

\* what handling one notification did: did names the branch taken, err the
\* error returned with `?`, stored whether store ran, running whether the
\* loop goes on to the next notification
Handled(did, err, p2r, i2p, file, did_store, running) ==
    [did |-> did, err |-> err, path_to_resource |-> p2r, id_to_paths |-> i2p,
     file |-> file, stored |-> did_store, running |-> running]

\* index.store()? after a mutation
then_store(did, root, p2r, i2p, file, store_ok) ==
    IF store_ok
    THEN Handled(did, "none", p2r, i2p, stored_file(root, p2r, i2p),
                 TRUE, TRUE)
    ELSE Handled(did, "Io", p2r, i2p, file, FALSE, FALSE)

\* mutant: the index is not stored after a mutation
handle_unsaved(res, fsys, root_path, p2r, i2p, file, order, store_ok) ==
    IF ~res.ok THEN Handled("logged", "none", p2r, i2p, file, FALSE, TRUE)
    ELSE IF in_ark_folder(res, join(root_path, <<ARK_FOLDER>>))
    THEN Handled("ignored", "none", p2r, i2p, file, FALSE, TRUE)
    ELSE IF ~is_kept(res.kind)
    THEN Handled("dropped", "none", p2r, i2p, file, FALSE, TRUE)
    ELSE IF need_rescan(res)
    THEN LET st == update_all(fsys, root_path, p2r, i2p, {}, order)
         IN  Handled("update_all", "none", st.path_to_resource,
                     st.id_to_paths, file, FALSE, TRUE)
    ELSE LET rel == strip_prefix(res.paths[1], root_path)
             r == update_one(fsys, root_path, p2r, i2p, rel.val)
         IN  IF ~rel.ok \/ r.err # "none"
             THEN Handled("update_one", "Path", p2r, i2p, file, FALSE, FALSE)
             ELSE Handled("update_one", "none", r.path_to_resource,
                          r.id_to_paths, file, FALSE, TRUE)

\* the body of the loop for one notification res
handle(res, fsys, root_path, p2r, i2p, file, order, store_ok) ==
    IF ~res.ok THEN Handled("logged", "none", p2r, i2p, file, FALSE, TRUE)
    ELSE IF in_ark_folder(res, join(root_path, <<ARK_FOLDER>>))
    THEN Handled("ignored", "none", p2r, i2p, file, FALSE, TRUE)
    ELSE IF ~is_kept(res.kind)
    THEN Handled("dropped", "none", p2r, i2p, file, FALSE, TRUE)
    ELSE IF need_rescan(res)
    THEN LET st == update_all(fsys, root_path, p2r, i2p, {}, order)
         IN  IF st.panicked
             THEN Handled("update_all", "panic", st.path_to_resource,
                          st.id_to_paths, file, FALSE, FALSE)
             ELSE then_store("update_all", root_path, st.path_to_resource,
                             st.id_to_paths, file, store_ok)
    ELSE IF res.paths = <<>>
    THEN Handled("update_one", "panic", p2r, i2p, file, FALSE, FALSE)
    ELSE LET rel == strip_prefix(res.paths[1], root_path)
         IN  IF ~rel.ok
             THEN Handled("update_one", "StripPrefix", p2r, i2p, file,
                          FALSE, FALSE)
             ELSE LET r == update_one(fsys, root_path, p2r, i2p, rel.val)
                  IN  IF r.err # "none"
                      THEN Handled("update_one", r.err, p2r, i2p, file,
                                   FALSE, FALSE)
                      ELSE then_store("update_one", root_path,
                                      r.path_to_resource, r.id_to_paths,
                                      file, store_ok)

\* channel(1) of one sender: the buffer and one slot of the sender
CHANNEL_BUFFER == 1
Capacity == CHANNEL_BUFFER + 1

\* mutant: the newest notification is taken
newest_notification(ch) == ch[Len(ch)]

\* rx.next(): the oldest notification
next_notification(ch) == Head(ch)

\* the channel without the notification n
without(ch, n) ==
    LET i == CHOOSE j \in 1..Len(ch) : ch[j] = n
    IN  SubSeq(ch, 1, i - 1) \o SubSeq(ch, i + 1, Len(ch))

(***************************************************************************)
(* State machine                                                           *)
(***************************************************************************)
\* last: the operation that produced the state, the index it started from
\* and what it returned; reset by every change of the filesystem.
\* fresh: no file changed between the previous build or update_all and
\* this operation.
\* index_file: the file <root>/.ark/index; store_pc: where a running store
\* is; stored: the index whose document was last written completely.
NoLast == [op |-> "fs", fresh |-> FALSE, ok |-> TRUE, unreadable |-> {},
           prev_path_to_resource |-> EmptyMap, prev_id_to_paths |-> EmptyMap,
           added |-> EmptyMap, removed |-> {}, inserted |-> {}]

NoStored == [some |-> FALSE, root |-> <<>>, path_to_resource |-> EmptyMap,
             id_to_paths |-> EmptyMap]
StoredIndex(root, p2r, i2p) ==
    [some |-> TRUE, root |-> root, path_to_resource |-> p2r,
     id_to_paths |-> i2p]

\* the variables of the persisted index
disk == <<index_file, store_pc, stored>>

\* the variables of the watcher: the notifications sent and not yet taken,
\* where watch_index is, whether the environment has stopped changing
\* files, whether the sender of the channel is dropped, and the WatchEvent
\* yielded to the consumer and not yet received
watch == <<channel, watch_pc, quiet, closed, out>>

Init ==
    /\ fs = [p \in RelPaths |-> NoFile]
    /\ path_to_resource = build(fs, Root).path_to_resource
    /\ id_to_paths = build(fs, Root).id_to_paths
    /\ last = [NoLast EXCEPT !.op = "build"]
    /\ index_file = AbsentFile
    /\ store_pc = "idle"
    /\ stored = NoStored
    /\ channel = <<>>
    /\ watch_pc = "off"
    /\ quiet = FALSE
    /\ closed = FALSE
    /\ out = <<>>

\* the environment creates or rewrites the file p
FsWrite(p, f) ==
    /\ fs[p] # f
    /\ fs' = [fs EXCEPT ![p] = f]
    /\ last' = NoLast
    /\ UNCHANGED <<path_to_resource, id_to_paths, disk, watch>>

\* the environment deletes the file p
FsRemove(p) ==
    /\ fs[p].kind = "file"
    /\ fs' = [fs EXCEPT ![p] = NoFile]
    /\ last' = NoLast
    /\ UNCHANGED <<path_to_resource, id_to_paths, disk, watch>>

Build ==
    \E index \in {build(fs, Root)} :
        /\ store_pc = "idle"
        /\ ~index.panicked
        /\ path_to_resource' = index.path_to_resource
        /\ id_to_paths' = index.id_to_paths
        /\ last' = [NoLast EXCEPT !.op = "build"]
        /\ UNCHANGED <<fs, disk, watch>>

\* the keys of the scan of fsys: what update_all iterates over
scanned(fsys) == DOMAIN scan_entries(fsys, discover_paths(fsys, Root))

UpdateAll ==
    \E order \in Orders(scanned(fs)) :
    \E unreadable \in {{}, {join(Root, <<"a">>)}} :
    \E r \in {update_all(fs, Root, path_to_resource, id_to_paths,
                          unreadable, order)} :
            /\ path_to_resource' = r.path_to_resource
            /\ id_to_paths' = r.id_to_paths
            /\ last' = [op |-> "update_all",
                        fresh |-> last.op \in {"build", "update_all"},
                        ok |-> ~r.panicked, unreadable |-> unreadable,
                        prev_path_to_resource |-> path_to_resource,
                        prev_id_to_paths |-> id_to_paths,
                        added |-> r.added, removed |-> r.removed,
                        inserted |-> r.inserted]
            /\ UNCHANGED <<fs, disk, watch>>

Track(op, r) ==
    /\ path_to_resource' = r.path_to_resource
    /\ id_to_paths' = r.id_to_paths
    /\ last' = [NoLast EXCEPT !.op = op]
    /\ UNCHANGED <<fs, disk, watch>>

TrackAddition(p) ==
    Track("track_addition",
          track_addition(fs, Root, path_to_resource, id_to_paths, p))

TrackRemoval(p) ==
    Track("track_removal",
          track_removal(fs, Root, path_to_resource, id_to_paths, p))

TrackModification(p) ==
    Track("track_modification",
          track_modification(fs, Root, path_to_resource, id_to_paths, p))

Next ==
    \/ \E p \in RelPaths : \E f \in Writes(p) : FsWrite(p, f)
    \/ \E p \in RelPaths : FsRemove(p)
    \/ Build
    \/ UpdateAll
    \/ \E p \in RelPaths : TrackAddition(p)
    \/ \E p \in RelPaths : TrackRemoval(p)
    \/ \E p \in RelPaths : TrackModification(p)

Spec == Init /\ [][Next]_vars

(***************************************************************************)
(* State machine of the scan: the root also holds a directory, the hidden  *)
(* file and the file of the hidden directory .ark; the caller builds and   *)
(* calls update_all                                                        *)
(***************************************************************************)
Dir == [kind |-> "dir", content |-> <<>>, modified |-> 0]

ScanDirs == {<<"e">>}
ScanFiles == {<<"a">>, <<"d", "c">>, <<".h">>, <<".ark", "index">>}

InitScan ==
    /\ fs = [p \in ScanFiles \cup ScanDirs |-> NoFile]
    /\ path_to_resource = build(fs, Root).path_to_resource
    /\ id_to_paths = build(fs, Root).id_to_paths
    /\ last = [NoLast EXCEPT !.op = "build"]
    /\ index_file = AbsentFile
    /\ store_pc = "idle"
    /\ stored = NoStored
    /\ channel = <<>>
    /\ watch_pc = "off"
    /\ quiet = FALSE
    /\ closed = FALSE
    /\ out = <<>>

\* the environment creates the directory p
FsMkdir(p) ==
    /\ fs[p].kind = "none"
    /\ fs' = [fs EXCEPT ![p] = Dir]
    /\ last' = NoLast
    /\ UNCHANGED <<path_to_resource, id_to_paths, disk, watch>>

\* the environment removes the directory p
FsRmdir(p) ==
    /\ fs[p].kind = "dir"
    /\ fs' = [fs EXCEPT ![p] = NoFile]
    /\ last' = NoLast
    /\ UNCHANGED <<path_to_resource, id_to_paths, disk, watch>>

NextScan ==
    \/ \E p \in ScanFiles : \E f \in Writes(p) : FsWrite(p, f)
    \/ \E p \in ScanFiles : FsRemove(p)
    \/ \E p \in ScanDirs : FsMkdir(p)
    \/ \E p \in ScanDirs : FsRmdir(p)
    \/ Build
    \/ UpdateAll

SpecScan == InitScan /\ [][NextScan]_vars

(***************************************************************************)
(* State machine of the Track API: files change, the caller builds and     *)
(* calls the three track operations; last keeps the argument, the result   *)
(* and the maps the operation started from                                 *)
(***************************************************************************)
TrackPaths == {<<"a">>, <<"b">>, <<"d", "c">>}

\* the environment deletes the file p; when p was just added by a
\* track_addition, last keeps the maps that track_addition started from
FsRemoveTracked(p) ==
    /\ fs[p].kind = "file"
    /\ fs' = [fs EXCEPT ![p] = NoFile]
    /\ last' = IF /\ last.op = "track_addition"
                  /\ last.err = "none"
                  /\ last.arg = p
               THEN [op |-> "fs_remove", arg |-> p, err |-> "none",
                     prev_path_to_resource |-> last.prev_path_to_resource,
                     prev_id_to_paths |-> last.prev_id_to_paths,
                     undoes |-> FALSE,
                     undone_path_to_resource |-> EmptyMap,
                     undone_id_to_paths |-> EmptyMap]
               ELSE NoLast
    /\ UNCHANGED <<path_to_resource, id_to_paths, disk, watch>>

\* undoes: the operation follows a successful track_addition of the same
\* path and the deletion of its file; undone_*: the maps before the two
Tracked(op, p, r) ==
    /\ path_to_resource' = r.path_to_resource
    /\ id_to_paths' = r.id_to_paths
    /\ \E undoes \in {last.op = "fs_remove" /\ last.arg = p} :
         last' = [op |-> op, arg |-> p, err |-> r.err,
                  prev_path_to_resource |-> path_to_resource,
                  prev_id_to_paths |-> id_to_paths,
                  undoes |-> undoes,
                  undone_path_to_resource |->
                     IF undoes THEN last.prev_path_to_resource ELSE EmptyMap,
                  undone_id_to_paths |->
                     IF undoes THEN last.prev_id_to_paths ELSE EmptyMap]
    /\ UNCHANGED <<fs, disk, watch>>

TrackedAddition(p) ==
    \E r \in {track_addition(fs, Root, path_to_resource, id_to_paths, p)} :
        Tracked("track_addition", p, r)

TrackedRemoval(p) ==
    \E r \in {track_removal(fs, Root, path_to_resource, id_to_paths, p)} :
        Tracked("track_removal", p, r)

TrackedModification(p) ==
    \E r \in {track_modification(fs, Root, path_to_resource, id_to_paths, p)} :
        Tracked("track_modification", p, r)

NextTrack ==
    \/ \E p \in TrackPaths : \E f \in Writes(p) : FsWrite(p, f)
    \/ \E p \in TrackPaths : FsRemoveTracked(p)
    \/ Build
    \/ \E p \in TrackPaths : TrackedAddition(p)
    \/ \E p \in TrackPaths : TrackedRemoval(p)
    \/ \E p \in TrackPaths : TrackedModification(p)

SpecTrack == Init /\ [][NextTrack]_vars

(***************************************************************************)
(* State machine of the persisted index: files change, the caller builds,  *)
(* stores step by step (or is killed while storing) and loads              *)
(***************************************************************************)
StorePaths == {<<"a">>, <<"b">>}

\* fs::create_dir_all and File::create: the file exists and is empty
StoreCreate ==
    /\ store_pc = "idle"
    /\ index_file' = store(Root, path_to_resource, id_to_paths)[1]
    /\ store_pc' = "created"
    /\ last' = [NoLast EXCEPT !.op = "store"]
    /\ UNCHANGED <<fs, path_to_resource, id_to_paths, stored, watch>>

\* to_writer_pretty has written a part of the document
StoreWrite ==
    /\ store_pc = "created"
    /\ index_file' = store(Root, path_to_resource, id_to_paths)[2]
    /\ store_pc' = "writing"
    /\ UNCHANGED <<fs, path_to_resource, id_to_paths, last, stored, watch>>

\* to_writer_pretty has written the whole document; store returns
StoreFinish ==
    /\ store_pc = "writing"
    /\ index_file' = store(Root, path_to_resource, id_to_paths)[3]
    /\ store_pc' = "idle"
    /\ stored' = StoredIndex(Root, path_to_resource, id_to_paths)
    /\ UNCHANGED <<fs, path_to_resource, id_to_paths, last, watch>>

\* the process is killed while it stores; the file stays as it is
StoreCrash ==
    /\ store_pc # "idle"
    /\ store_pc' = "idle"
    /\ last' = NoLast
    /\ UNCHANGED <<fs, path_to_resource, id_to_paths, index_file, stored,
                   watch>>

\* load_or_build_index(root, update); on success the caller holds the
\* returned index
LoadOrBuild(update) ==
    /\ store_pc = "idle"
    /\ \E order \in Orders(scanned(fs)) :
       \E r \in {load_or_build_index(fs, Root, index_file, update, order)} :
            /\ path_to_resource' =
                    IF r.ok THEN r.path_to_resource ELSE path_to_resource
            /\ id_to_paths' = IF r.ok THEN r.id_to_paths ELSE id_to_paths
            /\ index_file' = r.file
            /\ stored' = IF r.ok /\ r.ran[Len(r.ran)] = "store"
                          THEN StoredIndex(r.root, r.path_to_resource,
                                           r.id_to_paths)
                          ELSE stored
            /\ last' = [op |-> "load_or_build_index", ok |-> r.ok,
                        update |-> update, root |-> r.root, ran |-> r.ran,
                        file_before |-> index_file,
                        stored_before |-> stored]
            /\ UNCHANGED <<fs, store_pc, watch>>

NextStore ==
    \/ \E p \in StorePaths : \E f \in Writes(p) : FsWrite(p, f)
    \/ \E p \in StorePaths : FsRemove(p)
    \/ Build
    \/ StoreCreate
    \/ StoreWrite
    \/ StoreFinish
    \/ StoreCrash
    \/ \E update \in BOOLEAN : LoadOrBuild(update)

SpecStore == Init /\ [][NextStore]_vars

(***************************************************************************)
(* State machine of the watcher: watch_index has built and stored the      *)
(* index and waits for notifications; files change and the callback sends  *)
(* their notifications while the channel has room; the loop takes one      *)
(* notification at a time and handles it to the end                        *)
(***************************************************************************)
WatchPaths == {<<"a">>}

IndexFilePath == join(Root, <<ARK_FOLDER, INDEX_PATH>>)

\* notifications that do not come from a change of a file of WatchPaths
OtherEvents ==
    {Event("Access", <<join(Root, <<"a">>)>>, FALSE),
     Event("Other", <<>>, TRUE),
     Event("ModifyData", <<>>, TRUE),
     Event("ModifyName",
           <<join(Root, <<"a">>), join(Root, <<ARK_FOLDER, "a">>)>>, FALSE),
     Event("ModifyName", <<<<"/", "x">>, join(Root, <<"a">>)>>, FALSE),
     WatcherError}

InitWatch ==
    /\ fs = [p \in RelPaths |-> NoFile]
    /\ path_to_resource = build(fs, Root).path_to_resource
    /\ id_to_paths = build(fs, Root).id_to_paths
    /\ last = [NoLast EXCEPT !.op = "build"]
    /\ index_file = stored_file(Root, path_to_resource, id_to_paths)
    /\ store_pc = "idle"
    /\ stored = StoredIndex(Root, path_to_resource, id_to_paths)
    /\ channel = <<>>
    /\ watch_pc = "waiting"
    /\ quiet = FALSE
    /\ closed = FALSE
    /\ out = <<>>

\* mutant: a full channel does not block the sender, the newest
\* notification waiting is overwritten
SendOverwriting(res) ==
    channel' = IF Len(channel) < Capacity THEN Append(channel, res)
               ELSE Append(SubSeq(channel, 1, Len(channel) - 1), res)

\* the callback sends a notification: tx.send(res) when there is room
Send(res) ==
    /\ Len(channel) < Capacity
    /\ channel' = Append(channel, res)

\* a file is created or rewritten and its notification sent
WatchedWrite(p, f) ==
    /\ ~quiet
    /\ fs[p] # f
    /\ fs' = [fs EXCEPT ![p] = f]
    /\ Send(Event(IF fs[p].kind = "none" THEN "CreateFile" ELSE "ModifyData",
                  <<join(Root, p)>>, FALSE))
    /\ last' = NoLast
    /\ UNCHANGED <<path_to_resource, id_to_paths, disk, watch_pc, quiet, closed,
                   out>>

\* a file is deleted and its notification sent
WatchedRemove(p) ==
    /\ ~quiet
    /\ fs[p].kind = "file"
    /\ fs' = [fs EXCEPT ![p] = NoFile]
    /\ Send(Event("RemoveFile", <<join(Root, p)>>, FALSE))
    /\ last' = NoLast
    /\ UNCHANGED <<path_to_resource, id_to_paths, disk, watch_pc, quiet, closed,
                   out>>

\* the platform sends another notification
Notify(res) ==
    /\ ~quiet
    /\ Send(res)
    /\ last' = NoLast
    /\ UNCHANGED <<fs, path_to_resource, id_to_paths, disk, watch_pc, quiet, closed,
                   out>>

\* the files under root stop changing
Quiesce ==
    /\ ~quiet
    /\ quiet' = TRUE
    /\ last' = NoLast
    /\ UNCHANGED <<fs, path_to_resource, id_to_paths, disk, channel,
                   watch_pc, closed, out>>

\* the values of the outbound stream
UpdatedOne(path) == [kind |-> "UpdatedOne", path |-> path]
UpdatedAll(update) == [kind |-> "UpdatedAll", update |-> update]

\* the events yielded and not yet received at most
MaxOut == 2

\* what the stream yields for a handled notification: nothing unless a
\* mutation was applied and stored
yielded(r, res, fsys, p2r, i2p, order) ==
    IF r.err # "none" THEN <<>>
    ELSE IF r.did = "update_one"
    THEN <<UpdatedOne(strip_prefix(res.paths[1], Root).val)>>
    ELSE IF r.did = "update_all"
    THEN LET st == update_all(fsys, Root, p2r, i2p, {}, order)
         IN  <<UpdatedAll([added |-> st.added, removed |-> st.removed])>>
    ELSE <<>>

\* mutant: the consumer is given the newest event
newest_event(stream) == stream[Len(stream)]

\* stream.next(): the oldest event not yet received
next_event(stream) == Head(stream)

\* one turn of the loop: a notification is taken and handled; a store
\* writes .ark/index, of which the callback sends a notification; with
\* yields, the turn ends by yielding its WatchEvent
Loop(yields) ==
    /\ watch_pc = "waiting"
    /\ channel # <<>>
    /\ yields => Len(out) < MaxOut
    /\ \E res \in {next_notification(channel)} :
       \E order \in Orders(scanned(fs)) :
       \E store_ok \in BOOLEAN :
       \E r \in {handle(res, fs, Root, path_to_resource, id_to_paths,
                        index_file, order, store_ok)} :
            /\ path_to_resource' = r.path_to_resource
            /\ id_to_paths' = r.id_to_paths
            /\ index_file' = r.file
            /\ stored' = IF r.stored
                          THEN StoredIndex(Root, r.path_to_resource,
                                           r.id_to_paths)
                          ELSE stored
            /\ channel' = without(channel, res)
                            \o (IF r.stored /\ ~closed
                                THEN <<Event("ModifyData",
                                             <<IndexFilePath>>, FALSE)>>
                                ELSE <<>>)
            /\ watch_pc' = IF r.running THEN "waiting" ELSE "stopped"
            /\ last' = [op |-> "watch", event |-> res, did |-> r.did,
                        err |-> r.err, stored |-> r.stored,
                        prev_path_to_resource |-> path_to_resource,
                        prev_id_to_paths |-> id_to_paths,
                        prev_file |-> index_file]
            /\ out' = IF yields
                      THEN out \o yielded(r, res, fs, path_to_resource,
                                          id_to_paths, order)
                      ELSE out
            /\ UNCHANGED <<fs, store_pc, quiet, closed>>

\* watch_index as it is in watch.rs: nothing is yielded
Take == Loop(FALSE)

NextWatch ==
    \/ \E p \in WatchPaths : \E f \in Writes(p) : WatchedWrite(p, f)
    \/ \E p \in WatchPaths : WatchedRemove(p)
    \/ \E res \in OtherEvents : Notify(res)
    \/ Quiesce
    \/ Take

SpecWatch == InitWatch /\ [][NextWatch]_vars

(***************************************************************************)
(* State machine of one run of watch_index from its start to its end: the  *)
(* index is built and stored, then the watcher is installed, then the loop *)
(* runs until it returns or the stream of notifications ends               *)
(***************************************************************************)
RunPaths == {<<"a">>, <<"b">>}

\* the index is built and stored (watch.rs:42-43), no watcher is installed
InitRun ==
    /\ fs = [p \in RelPaths |-> NoFile]
    /\ path_to_resource = build(fs, Root).path_to_resource
    /\ id_to_paths = build(fs, Root).id_to_paths
    /\ last = [NoLast EXCEPT !.op = "build"]
    /\ index_file = stored_file(Root, path_to_resource, id_to_paths)
    /\ store_pc = "idle"
    /\ stored = StoredIndex(Root, path_to_resource, id_to_paths)
    /\ channel = <<>>
    /\ watch_pc = "built"
    /\ quiet = FALSE
    /\ closed = FALSE
    /\ out = <<>>

\* a file is written between index.store() and watcher.watch(): nothing
\* watches the root yet
UnwatchedWrite(p, f) ==
    /\ watch_pc = "built"
    /\ ~quiet
    /\ fs[p] # f
    /\ fs' = [fs EXCEPT ![p] = f]
    /\ last' = NoLast
    /\ UNCHANGED <<path_to_resource, id_to_paths, disk, watch>>

\* async_watcher, watcher.configure, watcher.watch (watch.rs:45-49)
Install ==
    /\ watch_pc = "built"
    /\ watch_pc' = "waiting"
    /\ last' = NoLast
    /\ UNCHANGED <<fs, path_to_resource, id_to_paths, disk, channel, quiet,
                   closed, out>>

\* the watcher is installed and its sender alive
Watching == watch_pc # "built" /\ ~closed

\* a file is renamed and the notification of both names sent
WatchedRename(p, q) ==
    /\ ~quiet
    /\ fs[p].kind = "file"
    /\ fs[q].kind = "none"
    /\ fs' = [fs EXCEPT ![p] = NoFile, ![q] = fs[p]]
    /\ Send(Event("ModifyName", <<join(Root, p), join(Root, q)>>, FALSE))
    /\ last' = NoLast
    /\ UNCHANGED <<path_to_resource, id_to_paths, disk, watch_pc, quiet,
                   closed, out>>

\* the sender of the channel is dropped: the stream ends after the
\* notifications already sent
Close ==
    /\ Watching
    /\ closed' = TRUE
    /\ last' = NoLast
    /\ UNCHANGED <<fs, path_to_resource, id_to_paths, disk, channel,
                   watch_pc, quiet, out>>

\* rx.next() gives None: the while-let loop ends and unreachable! panics
EndOfStream ==
    /\ watch_pc = "waiting"
    /\ channel = <<>>
    /\ closed
    /\ watch_pc' = "panicked"
    /\ last' = [NoLast EXCEPT !.op = "end"]
    /\ UNCHANGED <<fs, path_to_resource, id_to_paths, disk, channel, quiet,
                   closed, out>>

NextRun ==
    \/ \E p \in WatchPaths : \E f \in Writes(p) : UnwatchedWrite(p, f)
    \/ Install
    \/ \E p \in WatchPaths : \E f \in Writes(p) :
            Watching /\ WatchedWrite(p, f)
    \/ \E p \in RunPaths : Watching /\ WatchedRemove(p)
    \/ \E p, q \in RunPaths : Watching /\ WatchedRename(p, q)
    \/ Quiesce
    \/ Take
    \/ Close
    \/ EndOfStream

SpecRun == InitRun /\ [][NextRun]_vars

(***************************************************************************)
(* State machine of the watcher with its outbound stream: each turn of the *)
(* loop yields the WatchEvent of its mutation and the consumer receives    *)
(* the events one at a time                                                *)
(***************************************************************************)
\* one turn of the loop of the watcher that exposes the stream
TakeYield == Loop(TRUE)

\* the consumer's stream.next()
Receive ==
    /\ out # <<>>
    /\ last' = [op |-> "receive", received |-> next_event(out)]
    /\ out' = without(out, next_event(out))
    /\ UNCHANGED <<fs, path_to_resource, id_to_paths, disk, channel,
                   watch_pc, quiet, closed>>

NextStream ==
    \/ \E p \in WatchPaths : \E f \in Writes(p) : WatchedWrite(p, f)
    \/ \E p \in WatchPaths : WatchedRemove(p)
    \/ Notify(Event("ModifyData", <<>>, TRUE))
    \/ TakeYield
    \/ Receive

SpecStream == InitWatch /\ [][NextStream]_vars

(***************************************************************************)
(* State machine of the text form of an id: from_str is applied to the     *)
(* strings of a few characters, to_string to the ids of a few bytes        *)
(***************************************************************************)
\* the longest string parsed, in characters, and the longest id, in bytes
MaxChars == 3
MaxIdLen == 2

\* digits, letters that are digits in one case or the other, a letter that
\* is none, signs, a space and a character outside ASCII
Chars ==
    {<<"0">>, <<"9">>, <<"a">>, <<"f">>, <<"A">>, <<"g">>, <<"+">>, <<"-">>,
     <<" ">>, <<Utf8Lead, Utf8Continuation>>}

RECURSIVE Strings(_)
Strings(n) ==
    IF n = 0 THEN {<<>>}
    ELSE {c \o t : c \in Chars, t \in Strings(n - 1)} \cup Strings(n - 1)

ByteValues == {0, 9, 10, 15, 16, 127, 128, 171, 255}

RECURSIVE Hashes(_)
Hashes(n) ==
    IF n = 0 THEN {<<>>}
    ELSE {<<b>> \o h : b \in ByteValues, h \in Hashes(n - 1)}
            \cup Hashes(n - 1)

\* no call has been made yet: each call is looked at on its own
NotCalled == last.op = "build"

\* Hash::from_str(s)
Parse(s) ==
    /\ NotCalled
    /\ last' = [op |-> "from_str", arg |-> s, res |-> from_str(s)]
    /\ UNCHANGED <<fs, path_to_resource, id_to_paths, disk, watch>>

\* hash.to_string()
Display(h) ==
    /\ NotCalled
    /\ last' = [op |-> "to_string", arg |-> h, res |-> to_string(h)]
    /\ UNCHANGED <<fs, path_to_resource, id_to_paths, disk, watch>>

NextText ==
    \/ \E s \in Strings(MaxChars) : Parse(s)
    \/ \E h \in Hashes(MaxIdLen) : Display(h)

SpecText == Init /\ [][NextText]_vars

(***************************************************************************)
(* Properties                                                              *)
(***************************************************************************)
\* the state right after an update_all that returned
AfterUpdate == last.op = "update_all" /\ last.ok

\* the relative paths of the scan of the current filesystem
ScanRel == {strip_prefix(q, Root).val : q \in scanned(fs)}

\* what a scan records for the file at the relative path p
Scanned(p) == IndexEntry(from_bytes(fs[p].content), fs[p].modified)

\* the indexed paths whose entry has the id k
PathsOf(k) == {p \in DOMAIN path_to_resource : path_to_resource[p].id = k}

\* the relative paths named by the added part of the last IndexUpdate
AddedPaths == {last.added[k].path : k \in DOMAIN last.added}

\* the paths indexed before the last update_all and found by its scan
Preserved == DOMAIN last.prev_path_to_resource \cap ScanRel

\* the paths indexed before the last update_all and absent from its scan
Gone == DOMAIN last.prev_path_to_resource \ ScanRel

\* current minus stored last-modified time of a preserved path
Elapsed(p) == fs[p].modified - last.prev_path_to_resource[p].last_modified

\* C1: in every state the two maps agree: each key p of path_to_resource is
\* a member of id_to_paths[path_to_resource[p].id], and each member p of a
\* set id_to_paths[k] is a key of path_to_resource whose entry has the id k.
ThmC1_MapsAgree ==
    /\ \A p \in DOMAIN path_to_resource :
          /\ path_to_resource[p].id \in DOMAIN id_to_paths
          /\ p \in id_to_paths[path_to_resource[p].id]
    /\ \A k \in DOMAIN id_to_paths : \A p \in id_to_paths[k] :
          /\ p \in DOMAIN path_to_resource
          /\ path_to_resource[p].id = k

\* an update_all that removed a path, re-indexed a path under another id
\* and left two paths under one id
WitC1_UpdateWithCollision ==
    /\ AfterUpdate
    /\ Gone # {}
    /\ \E p \in Preserved :
          path_to_resource[p].id # last.prev_path_to_resource[p].id
    /\ \E k \in DOMAIN id_to_paths : Cardinality(id_to_paths[k]) > 1

\* C2: in every state no key of id_to_paths has an empty set of paths.
ThmC2_NoOrphanIds ==
    \A k \in DOMAIN id_to_paths : id_to_paths[k] # {}

\* an update_all that removed the last path of an id, and with it the id
WitC2_IdDropped ==
    /\ AfterUpdate
    /\ \E k \in DOMAIN last.prev_id_to_paths : k \notin DOMAIN id_to_paths

\* C3: after update_all the indexed paths are exactly the scanned paths, and
\* a path indexed before and absent from the scan is in neither map.
ThmC3_IndexedEqualsScanned ==
    AfterUpdate =>
        /\ DOMAIN path_to_resource = ScanRel
        /\ \A p \in Gone :
              /\ p \notin DOMAIN path_to_resource
              /\ \A k \in DOMAIN id_to_paths : p \notin id_to_paths[k]

\* an update_all that both dropped a vanished path and indexed a new one
WitC3_RemovedAndCreated ==
    /\ AfterUpdate
    /\ Gone # {}
    /\ ScanRel \ DOMAIN last.prev_path_to_resource # {}

\* C4: after update_all, a path indexed before whose scanned last-modified
\* time is at least 1 ms later than the stored one carries the scanned id
\* and the scanned last-modified time.
ThmC4_ModificationApplied ==
    AfterUpdate =>
        \A p \in Preserved :
            Elapsed(p) >= RESOURCE_UPDATED_THRESHOLD =>
                /\ p \in DOMAIN path_to_resource
                /\ path_to_resource[p] = Scanned(p)

\* an update_all over a path rewritten 1 ms later with another content
WitC4_ModifiedPath ==
    /\ AfterUpdate
    /\ \E p \in Preserved :
          /\ Elapsed(p) >= RESOURCE_UPDATED_THRESHOLD
          /\ Scanned(p).id # last.prev_path_to_resource[p].id
          /\ path_to_resource[p] = Scanned(p)

\* C5 (as claimed): after update_all, a path indexed before and scanned with
\* a last-modified difference below 1 ms keeps its stored entry and is in
\* neither part of the returned IndexUpdate.
CexC5_UnmodifiedUntouched ==
    AfterUpdate =>
        \A p \in Preserved :
            (0 <= Elapsed(p) /\ Elapsed(p) < RESOURCE_UPDATED_THRESHOLD) =>
                /\ path_to_resource[p] = last.prev_path_to_resource[p]
                /\ p \notin AddedPaths
                /\ last.prev_path_to_resource[p].id \notin last.removed

\* C6 (as claimed): update_all on a filesystem unchanged since the index was
\* built or last updated returns empty added and removed and leaves both maps
\* as they were.
CexC6_IdempotentUpdate ==
    (AfterUpdate /\ last.fresh) =>
        /\ DOMAIN last.added = {}
        /\ last.removed = {}
        /\ path_to_resource = last.prev_path_to_resource
        /\ id_to_paths = last.prev_id_to_paths

\* C7 (as claimed): the added part returned by update_all names every path
\* the call inserted, as many resources as inserted paths.
CexC7_AddedComplete ==
    AfterUpdate =>
        /\ last.inserted \subseteq AddedPaths
        /\ Cardinality(DOMAIN last.added) = Cardinality(last.inserted)

\* C8: after update_all, the id of every path that was indexed before and is
\* absent from the scan is in the removed part of the returned IndexUpdate.
ThmC8_RemovedReported ==
    AfterUpdate =>
        \A p \in Gone : last.prev_path_to_resource[p].id \in last.removed

\* an update_all that dropped a vanished path while another path, indexed
\* before and after, has the same id
WitC8_RemovedWithTwin ==
    /\ AfterUpdate
    /\ \E p \in Gone : \E q \in Preserved :
          /\ last.prev_path_to_resource[q].id = last.prev_path_to_resource[p].id
          /\ path_to_resource[q].id = last.prev_path_to_resource[p].id
          /\ last.prev_path_to_resource[p].id \in last.removed

\* C9 (as claimed): update_all returns, and a preserved path whose current
\* last-modified time is earlier than the stored one, or whose metadata
\* cannot be read, keeps its entry unchanged.
CexC9_BackwardsTimeUnchanged ==
    last.op = "update_all" =>
        /\ last.ok
        /\ \A p \in Preserved :
              (Elapsed(p) < 0 \/ join(Root, p) \in last.unreadable) =>
                  path_to_resource[p] = last.prev_path_to_resource[p]

\* C10: in every state collisions() is exactly the ids that more than one
\* indexed path has, each with all the paths that have it, num_collisions()
\* is the number of indexed paths that share their id with another path, and
\* num_collisions() is never 1.
ThmC10_Collisions ==
    LET shared == {k \in {path_to_resource[p].id : p \in DOMAIN path_to_resource} :
                      Cardinality(PathsOf(k)) > 1}
    IN  /\ DOMAIN collisions(id_to_paths) = shared
        /\ \A k \in shared : collisions(id_to_paths)[k] = PathsOf(k)
        /\ num_collisions(id_to_paths) =
              Cardinality({p \in DOMAIN path_to_resource :
                              path_to_resource[p].id \in shared})
        /\ num_collisions(id_to_paths) # 1

\* three files of one content indexed by update_all, one of them new, and a
\* fourth path: one group of size 3
WitC10_GroupOfThree ==
    /\ AfterUpdate
    /\ ScanRel \ DOMAIN last.prev_path_to_resource # {}
    /\ Cardinality(DOMAIN collisions(id_to_paths)) = 1
    /\ \E k \in DOMAIN collisions(id_to_paths) :
          Cardinality(collisions(id_to_paths)[k]) = 3
    /\ num_collisions(id_to_paths) = 3

\* every id a query can ask for: the ids of all contents, one of them (the
\* id of the empty content) never indexed
AllIds == {from_bytes(c) : c \in Contents}

\* the positions of the vector v whose resource has the id k
WithId(v, k) == {i \in 1..Len(v) : v[i].id = k}

\* C11: in every reachable state and for every id k, get_resources_by_id(k)
\* is None exactly when no indexed resource has id k; otherwise it holds one
\* resource per path of id_to_paths[k], all with id k, as many as resources()
\* has with id k; resources() has len() entries with pairwise distinct paths.
ThmC11_QueriesAgree ==
    /\ \A k \in AllIds :
         LET got == get_resources_by_id(path_to_resource, id_to_paths, k)
             all == resources(path_to_resource)
         IN  /\ ~got.some <=> PathsOf(k) = {}
             /\ got.some =>
                  /\ {got.val[i].path : i \in 1..Len(got.val)} = id_to_paths[k]
                  /\ Len(got.val) = Cardinality(id_to_paths[k])
                  /\ \A i \in 1..Len(got.val) : got.val[i].id = k
                  /\ Len(got.val) = Cardinality(WithId(all, k))
    /\ LET all == resources(path_to_resource)
       IN  /\ Len(all) = len(path_to_resource)
           /\ \A i, j \in 1..Len(all) : all[i].path = all[j].path => i = j

\* a query finds a collision group of two, another id has one resource and
\* a third id is unknown
WitC11_GroupAndUnknown ==
    \E k, m, u \in AllIds :
        /\ Len(get_resources_by_id(path_to_resource, id_to_paths, k).val) = 2
        /\ Len(get_resources_by_id(path_to_resource, id_to_paths, m).val) = 1
        /\ ~get_resources_by_id(path_to_resource, id_to_paths, u).some

\* the state right after a load_or_build_index that returned an index
AfterLoad == last.op = "load_or_build_index" /\ last.ok

\* the index the caller holds
Held == [ok |-> TRUE, root |-> Root, path_to_resource |-> path_to_resource,
         id_to_paths |-> id_to_paths]

\* C12: store followed by load_or_build_index(root, false) returns an index
\* equal to the stored one (root, path_to_resource, id_to_paths), also when
\* ids collide and whatever happened to the files in between.
ThmC12_StoreLoadRoundTrip ==
    (/\ last.op = "load_or_build_index"
     /\ ~last.update
     /\ last.file_before.kind = "complete")
    => /\ last.ok
       /\ last.root = last.stored_before.root
       /\ path_to_resource = last.stored_before.path_to_resource
       /\ id_to_paths = last.stored_before.id_to_paths

\* an index with a collision group and a non-zero time was stored and is
\* loaded after the files changed
WitC12_LoadedCollision ==
    /\ AfterLoad
    /\ ~last.update
    /\ last.file_before.kind = "complete"
    /\ \E k \in DOMAIN id_to_paths : Cardinality(id_to_paths[k]) = 2
    /\ path_to_resource[<<"a">>].last_modified > 0
    /\ fs[<<"a">>] = NoFile

\* C13: load_or_build_index returns the stored index without scanning or
\* writing when the file exists and update is false, runs update_all and
\* store when the file exists and update is true, runs build and store when
\* the file is absent; when it returns an index the file holds that index.
ThmC13_LoadOrBuild ==
    AfterLoad =>
        /\ (last.file_before.kind # "absent" /\ ~last.update) =>
                /\ last.ran = <<"load_index">>
                /\ index_file = last.file_before
                /\ path_to_resource = last.stored_before.path_to_resource
                /\ id_to_paths = last.stored_before.id_to_paths
        /\ (last.file_before.kind # "absent" /\ last.update) =>
                /\ last.ran = <<"load_index", "update_all", "store">>
                /\ DOMAIN path_to_resource = ScanRel
                /\ \A p \in ScanRel : path_to_resource[p] = Scanned(p)
        /\ last.file_before.kind = "absent" =>
                /\ last.ran = <<"build", "store">>
                /\ path_to_resource = build(fs, Root).path_to_resource
                /\ id_to_paths = build(fs, Root).id_to_paths
        /\ last.root = Root
        /\ index_file.kind = "complete"
        /\ from_json(index_file.doc) = Held

\* a stored index is loaded with update, changes and is stored again
WitC13_UpdatedAndStored ==
    /\ AfterLoad
    /\ last.update
    /\ last.file_before.kind = "complete"
    /\ index_file # last.file_before
    /\ path_to_resource # EmptyMap

\* the file that held the last completely stored index
StoredFile ==
    IF stored.some
    THEN stored_file(stored.root, stored.path_to_resource, stored.id_to_paths)
    ELSE AbsentFile

\* C14: at every step of a store the index file holds the complete document
\* stored before or the complete new document, never an empty or partial one.
CexC14_StoreAtomic ==
    store_pc # "idle" =>
        index_file \in {StoredFile,
                        stored_file(Root, path_to_resource, id_to_paths)}

\* the argument of the track operation that produced the state, its file,
\* the id of the file's content and the maps the operation started from
Arg == last.arg
ArgFile == fs[Arg]
ArgId == from_bytes(ArgFile.content)
PrevByPath == last.prev_path_to_resource
PrevById == last.prev_id_to_paths
PrevPaths(k) == IF k \in DOMAIN PrevById THEN PrevById[k] ELSE {}
Unchanged == path_to_resource = PrevByPath /\ id_to_paths = PrevById

\* every entry of both maps except those of the path p is as before
OthersUnchanged(p) ==
    /\ DOMAIN path_to_resource \ {p} = DOMAIN PrevByPath \ {p}
    /\ \A q \in DOMAIN PrevByPath \ {p} : path_to_resource[q] = PrevByPath[q]
    /\ \A k \in DOMAIN id_to_paths \cup DOMAIN PrevById :
            (IF k \in DOMAIN id_to_paths THEN id_to_paths[k] ELSE {}) \ {p}
                = PrevPaths(k) \ {p}

\* C15: track_addition(p) for a path that is not indexed and names a
\* non-empty file succeeds, inserts p into both maps under the id of the
\* content, makes len() one larger, leaves all other entries unchanged, and
\* forms a collision group with every indexed path that has the same id.
ThmC15_AdditionInserts ==
    (/\ last.op = "track_addition"
     /\ Arg \notin DOMAIN PrevByPath
     /\ ArgFile.kind = "file"
     /\ ArgFile.content # <<>>)
    => /\ last.err = "none"
       /\ Arg \in DOMAIN path_to_resource
       /\ path_to_resource[Arg].id = ArgId
       /\ ArgId \in DOMAIN id_to_paths
       /\ Arg \in id_to_paths[ArgId]
       /\ len(path_to_resource) = len(PrevByPath) + 1
       /\ OthersUnchanged(Arg)
       /\ \A q \in DOMAIN PrevByPath :
            PrevByPath[q].id = ArgId
            => /\ ArgId \in DOMAIN collisions(id_to_paths)
               /\ {Arg, q} \subseteq collisions(id_to_paths)[ArgId]

\* a file with the content of an indexed file is added next to an entry
\* with another id
WitC15_AddedToGroup ==
    /\ last.op = "track_addition"
    /\ last.err = "none"
    /\ Arg \notin DOMAIN PrevByPath
    /\ Cardinality(PrevPaths(ArgId)) = 1
    /\ Cardinality(DOMAIN PrevById) = 2

\* C16: track_addition(p) fails with NotFound when root/p does not exist and
\* with Empty when root/p has zero bytes, and leaves both maps unchanged.
ThmC16_AdditionRejects ==
    last.op = "track_addition" =>
        /\ ArgFile.kind = "none" => last.err = "NotFound" /\ Unchanged
        /\ (ArgFile.kind = "file" /\ ArgFile.content = <<>>)
                => last.err = "Empty" /\ Unchanged

\* a zero-byte file is not added to an index that holds other paths
WitC16_EmptyRejected ==
    /\ last.op = "track_addition"
    /\ ArgFile.kind = "file"
    /\ ArgFile.content = <<>>
    /\ last.err = "Empty"
    /\ Arg \notin DOMAIN PrevByPath
    /\ PrevByPath # EmptyMap

\* C17: track_removal(p) for an indexed path whose file is gone succeeds,
\* removes p from both maps, drops the id whose set became empty, makes
\* len() one smaller and leaves all other entries unchanged.
ThmC17_RemovalRemoves ==
    (/\ last.op = "track_removal"
     /\ Arg \in DOMAIN PrevByPath
     /\ ArgFile.kind = "none")
    => /\ last.err = "none"
       /\ Arg \notin DOMAIN path_to_resource
       /\ \A k \in DOMAIN id_to_paths :
            Arg \notin id_to_paths[k] /\ id_to_paths[k] # {}
       /\ LET id == PrevByPath[Arg].id
          IN  id \in DOMAIN id_to_paths <=> PrevPaths(id) \ {Arg} # {}
       /\ len(path_to_resource) = len(PrevByPath) - 1
       /\ OthersUnchanged(Arg)

\* one path of a collision group is removed while the other stays
WitC17_RemovedFromGroup ==
    /\ last.op = "track_removal"
    /\ last.err = "none"
    /\ Cardinality(PrevPaths(PrevByPath[Arg].id)) = 2
    /\ len(path_to_resource) = 2

\* C18: track_removal(p) fails with StillExists when the file root/p is
\* present and with NotIndexed when the file is gone and p is not indexed;
\* both maps are unchanged.
ThmC18_RemovalRejects ==
    last.op = "track_removal" =>
        /\ ArgFile.kind = "file" => last.err = "StillExists" /\ Unchanged
        /\ Arg \notin DOMAIN PrevByPath
                => last.err \in {"StillExists", "NotIndexed"} /\ Unchanged
        /\ (ArgFile.kind = "none" /\ Arg \notin DOMAIN PrevByPath)
                => last.err = "NotIndexed"

\* the removal of an indexed path whose file is still there is refused
WitC18_StillExists ==
    /\ last.op = "track_removal"
    /\ last.err = "StillExists"
    /\ Arg \in DOMAIN PrevByPath
    /\ len(PrevByPath) = 2

\* C19: track_modification(p) for a path that is not indexed returns an
\* error, also when root/p is a non-empty file, and the set of indexed
\* paths is unchanged.
ThmC19_ModificationDoesNotAdd ==
    (last.op = "track_modification" /\ Arg \notin DOMAIN PrevByPath)
    => /\ last.err # "none"
       /\ DOMAIN path_to_resource = DOMAIN PrevByPath

\* a non-empty file that is not indexed is not added by track_modification
WitC19_NewFileRefused ==
    /\ last.op = "track_modification"
    /\ Arg \notin DOMAIN PrevByPath
    /\ ArgFile.kind = "file"
    /\ ArgFile.content # <<>>
    /\ last.err # "none"
    /\ PrevByPath # EmptyMap

\* C20: track_modification(p) for an indexed path whose file is non-empty
\* hashes the file again whatever the time difference: len() is unchanged,
\* the entry of p has the id of the content and the time of the file, and p
\* is in id_to_paths under that id only.
ThmC20_ModificationRehashes ==
    (/\ last.op = "track_modification"
     /\ Arg \in DOMAIN PrevByPath
     /\ ArgFile.kind = "file"
     /\ ArgFile.content # <<>>)
    => /\ last.err = "none"
       /\ len(path_to_resource) = len(PrevByPath)
       /\ Arg \in DOMAIN path_to_resource
       /\ path_to_resource[Arg] = Scanned(Arg)
       /\ \A k \in DOMAIN id_to_paths \cup {ArgId} :
            k = ArgId <=> (k \in DOMAIN id_to_paths /\ Arg \in id_to_paths[k])

\* the content changed while the time advanced by less than the threshold
WitC20_RehashedBelowThreshold ==
    /\ last.op = "track_modification"
    /\ last.err = "none"
    /\ PrevByPath[Arg].id # ArgId
    /\ ArgFile.modified - PrevByPath[Arg].last_modified > 0
    /\ ArgFile.modified - PrevByPath[Arg].last_modified
            < RESOURCE_UPDATED_THRESHOLD

\* C21: a successful track_addition(p) of a path that was not indexed,
\* the deletion of the file and a successful track_removal(p) leave both
\* maps as they were before the track_addition.
ThmC21_AdditionRemovalDuality ==
    (/\ last.op = "track_removal"
     /\ last.undoes
     /\ last.err = "none")
    => /\ path_to_resource = last.undone_path_to_resource
       /\ id_to_paths = last.undone_id_to_paths

\* the path was added to a collision group next to another id and removed
\* again
WitC21_UndoneInGroup ==
    /\ last.op = "track_removal"
    /\ last.undoes
    /\ last.err = "none"
    /\ Cardinality(PrevPaths(PrevByPath[Arg].id)) = 2
    /\ Cardinality(DOMAIN PrevById) = 2

AfterScan == last.op \in {"build", "update_all"} /\ last.ok

\* the path p has a component that begins with '.'
Hidden(p) == \E i \in 1..Len(p) : p[i] \in DotNames

\* C23: after build and after update_all every indexed path names a
\* non-empty regular file none of whose components begins with '.', and
\* every such file below root is indexed under its relative path.
ThmC23_NoEmptyNoHidden ==
    AfterScan =>
        /\ \A p \in DOMAIN path_to_resource :
            /\ p \in DOMAIN fs
            /\ fs[p].kind = "file"
            /\ fs[p].content # <<>>
            /\ ~Hidden(p)
        /\ \A p \in DOMAIN fs :
            (fs[p].kind = "file" /\ fs[p].content # <<>> /\ ~Hidden(p))
            => p \in DOMAIN path_to_resource

\* a zero-byte file, a directory, a hidden file and the file of .ark are
\* there and only the file of the subdirectory is indexed
WitC23_OnlySubdirFileIndexed ==
    /\ AfterScan
    /\ last.op = "update_all"
    /\ fs[<<"a">>] = File(<<>>, 1)
    /\ fs[<<"e">>] = Dir
    /\ fs[<<".h">>].kind = "file"
    /\ fs[<<".ark", "index">>].kind = "file"
    /\ DOMAIN path_to_resource = {<<"d", "c">>}

\* the state right after the loop handled an event
AfterWatch == last.op = "watch" /\ last.event.ok

\* every path of the event is under <root>/.ark/
AllInArk(event) ==
    /\ event.paths # <<>>
    /\ \A i \in 1..Len(event.paths) :
         is_prefix(join(Root, <<ARK_FOLDER>>), event.paths[i])

\* the kinds file-data-modified, file-renamed, file-created, file-removed
KeptKinds == {"ModifyData", "ModifyName", "CreateFile", "RemoveFile"}

\* handling the event left the index and the index file as they were
Untouched ==
    /\ path_to_resource = last.prev_path_to_resource
    /\ id_to_paths = last.prev_id_to_paths
    /\ index_file = last.prev_file
    /\ ~last.stored

\* C24: the watcher ignores an event exactly when every path of it is under
\* <root>/.ark/; an event of a kept kind with a path outside is processed.
CexC24_IgnoredIffAllInArk ==
    AfterWatch =>
        /\ last.did = "ignored" <=> AllInArk(last.event)
        /\ (last.event.kind \in KeptKinds /\ ~AllInArk(last.event))
                => last.did \in {"update_all", "update_one"}

\* the work left in the channel: every notification has to be taken, and
\* one that is not of .ark may be answered by a store and its notification
Pending ==
    Len(channel)
    + Cardinality({i \in 1..Len(channel) : ~AllInArk(channel[i])})

\* C25: a notification of the watcher's own write to <root>/.ark/index
\* causes no mutation and no store, and once the files have stopped
\* changing every step of the loop leaves less work in the channel, so
\* only finitely many stores follow.
ThmC25_NoSelfTrigger ==
    /\ []((AfterWatch /\ AllInArk(last.event))
            => (last.did = "ignored" /\ Untouched /\ watch_pc = "waiting"))
    /\ [][quiet => Pending' < Pending]_vars

\* the notification of a store is taken after the files stopped changing
WitC25_OwnWriteIgnored ==
    /\ AfterWatch
    /\ last.event.paths = <<IndexFilePath>>
    /\ last.did = "ignored"
    /\ quiet
    /\ channel = <<>>

\* C26: an event of a kind that is not kept leaves the index and the index
\* file unchanged; no update and no store is performed for it.
ThmC26_OtherKindsDropped ==
    (AfterWatch /\ last.event.kind \notin KeptKinds)
    => /\ last.did \in {"ignored", "dropped"}
       /\ Untouched
       /\ watch_pc = "waiting"

\* an access event is dropped while the index lags behind the files
WitC26_AccessDropped ==
    /\ AfterWatch
    /\ last.event.kind = "Access"
    /\ last.did = "dropped"
    /\ fs[<<"a">>].kind = "file"
    /\ fs[<<"a">>].content # <<>>
    /\ <<"a">> \notin DOMAIN path_to_resource

\* C27: every event that signals a rescan and is not confined to
\* <root>/.ark/ makes the watcher call update_all, whatever its kind.
CexC27_RescanUpdatesAll ==
    (AfterWatch /\ need_rescan(last.event) /\ ~AllInArk(last.event))
    => last.did = "update_all"

\* C28: whenever the loop waits for a notification the index file holds
\* the index in memory.
ThmC28_StoredWhenWaiting ==
    watch_pc = "waiting" =>
        /\ index_file.kind = "complete"
        /\ from_json(index_file.doc) = Held

\* a single-path update changed the index and was stored
WitC28_MutatedAndStored ==
    /\ AfterWatch
    /\ last.did = "update_one"
    /\ last.stored
    /\ path_to_resource # last.prev_path_to_resource
    /\ last.prev_path_to_resource # EmptyMap
    /\ watch_pc = "waiting"

\* C29: the loop handles the notifications in the order they were sent:
\* it takes the oldest one, the others keep their order, and a notification
\* sent is put behind those waiting.
ThmC29_DeliveryOrder ==
    [][/\ last'.op = "watch" =>
            /\ channel # <<>>
            /\ last'.event = Head(channel)
            /\ is_prefix(Tail(channel), channel')
       /\ last'.op # "watch" => is_prefix(channel, channel')]_vars

\* of two notifications of the same path the first was handled and the
\* second waits
WitC29_SecondWaits ==
    /\ AfterWatch
    /\ last.did = "update_one"
    /\ last.stored
    /\ Len(channel) = 2
    /\ channel[1].paths = last.event.paths
    /\ channel[1].kind # last.event.kind

\* C30: when handling an event fails with an error other than an Io error
\* the loop keeps running.
CexC30_ErrorNotFatal ==
    (AfterWatch /\ last.err \notin {"none", "Io", "panic"})
    => watch_pc = "waiting"

\* C31: when the channel of notifications is closed the loop handles what
\* was sent before and watch_index returns without an error and without
\* aborting.
CexC31_ClosedReturnsNormally ==
    last.op = "end" => (watch_pc = "returned" /\ channel = <<>>)

\* the two names of a handled rename, relative to root
OldName == strip_prefix(last.event.paths[1], Root).val
NewName == strip_prefix(last.event.paths[2], Root).val

\* a rename event of two paths under root and outside .ark was handled
\* without error, and the file is where the event says
AfterRename ==
    /\ AfterWatch
    /\ last.event.kind = "ModifyName"
    /\ Len(last.event.paths) = 2
    /\ \A i \in 1..2 :
         /\ is_prefix(Root, last.event.paths[i])
         /\ ~is_prefix(join(Root, <<ARK_FOLDER>>), last.event.paths[i])
    /\ watch_pc = "waiting"
    /\ file_at(fs, last.event.paths[1]).kind = "none"
    /\ file_at(fs, last.event.paths[2]).kind = "file"
    /\ file_at(fs, last.event.paths[2]).content # <<>>

\* C39: after a rename event of two paths is handled the old path is not
\* indexed and the new path is indexed with the id of the file's content.
CexC39_RenameMovesEntry ==
    AfterRename =>
        /\ OldName \notin DOMAIN path_to_resource
        /\ NewName \in DOMAIN path_to_resource
        /\ path_to_resource[NewName].id
             = from_path(fs, last.event.paths[2])

\* C40: once the files have stopped changing and every notification has
\* been handled without error, the index in memory and the stored index
\* are the index build gives on the files as they are, changes made
\* between the first build and the installation of the watcher included.
CexC40_Converges ==
    (watch_pc = "waiting" /\ quiet /\ channel = <<>>) =>
        /\ path_to_resource = build(fs, Root).path_to_resource
        /\ id_to_paths = build(fs, Root).id_to_paths
        /\ index_file = stored_file(Root, path_to_resource, id_to_paths)

\* the track operation the kind of an event stands for, applied to the
\* index the loop held when it took the event
TrackOf(kind, rel) ==
    IF kind = "CreateFile"
    THEN track_addition(fs, Root, last.prev_path_to_resource,
                        last.prev_id_to_paths, rel)
    ELSE IF kind = "RemoveFile"
    THEN track_removal(fs, Root, last.prev_path_to_resource,
                       last.prev_id_to_paths, rel)
    ELSE track_modification(fs, Root, last.prev_path_to_resource,
                            last.prev_id_to_paths, rel)

\* a kept event of one of the three kinds, without rescan, whose first
\* path is under root, was handled
AfterSinglePath ==
    /\ AfterWatch
    /\ last.did = "update_one"
    /\ last.event.kind \in {"CreateFile", "RemoveFile", "ModifyData"}
    /\ last.err \notin {"panic", "StripPrefix"}

\* C33: a kept event without rescan is answered by the track operation of
\* its kind on its first path relative to root: it fails when
\* track_addition (file-created), track_removal (file-removed) or
\* track_modification (file-data-modified) fails, and else leaves the
\* index that operation leaves.
CexC33_TrackOfKind ==
    AfterSinglePath =>
        \E t \in {TrackOf(last.event.kind,
                          strip_prefix(last.event.paths[1], Root).val)} :
            IF t.err # "none"
            THEN last.err \notin {"none", "Io"}
            ELSE /\ last.err \in {"none", "Io"}
                 /\ path_to_resource = t.path_to_resource
                 /\ id_to_paths = t.id_to_paths

\* C37: the channel never holds more than its capacity, the buffer and
\* the slot of its one sender; a step that changes it either puts one
\* notification behind those waiting, and only while there is room, or
\* hands the oldest to the loop and keeps the others in their order, so
\* nothing sent is dropped, overwritten, received twice or overtaken.
ThmC37_BoundedLossless ==
    /\ [](Len(channel) <= CHANNEL_BUFFER + 1)
    /\ [][\/ channel' = channel
          \/ /\ Len(channel) < CHANNEL_BUFFER + 1
             /\ Len(channel') = Len(channel) + 1
             /\ is_prefix(channel, channel')
             /\ last'.op # "watch"
          \/ /\ channel # <<>>
             /\ last'.op = "watch"
             /\ last'.event = Head(channel)
             /\ is_prefix(Tail(channel), channel')
             /\ Len(channel') <= Len(channel)]_vars

\* the channel is full and the sender has to wait for the loop
WitC37_ChannelFull ==
    /\ Len(channel) = CHANNEL_BUFFER + 1
    /\ watch_pc = "waiting"
    /\ last.op = "fs"
    /\ channel[1] # channel[2]

\* the paths update_all re-indexed under another id than they had
Rehashed ==
    {p \in DOMAIN last.prev_path_to_resource \cap DOMAIN path_to_resource :
        last.prev_path_to_resource[p].id # path_to_resource[p].id}

\* C36: after update_all a path whose id changed from k1 to k2 is a member
\* of id_to_paths[k2] and of no other set, and k1 is a key of id_to_paths
\* only if another path has the id k1.
ThmC36_RehashedMoves ==
    AfterUpdate =>
        \A p \in Rehashed :
            /\ path_to_resource[p].id \in DOMAIN id_to_paths
            /\ p \in id_to_paths[path_to_resource[p].id]
            /\ \A k \in DOMAIN id_to_paths \ {path_to_resource[p].id} :
                    p \notin id_to_paths[k]
            /\ last.prev_path_to_resource[p].id \in DOMAIN id_to_paths
                    <=> PathsOf(last.prev_path_to_resource[p].id) # {}

\* a path left an id that another path keeps
WitC36_OldIdKeptByTwin ==
    /\ AfterUpdate
    /\ \E p \in Rehashed :
            /\ last.prev_path_to_resource[p].id \in DOMAIN id_to_paths
            /\ PathsOf(last.prev_path_to_resource[p].id) # {}
            /\ id_to_paths[path_to_resource[p].id] = {p}

IsHexDigit(c) ==
    \/ \E i \in 1..16 : HexDigits[i] = c
    \/ \E i \in 1..6 : UpperDigits[i] = c

\* C34: from_str never aborts; it returns an id exactly for the strings
\* of even length made of hexadecimal digits, and the Parse error for
\* every other string.
CexC34_ParseErrors ==
    last.op = "from_str" =>
        /\ last.res # Panic
        /\ last.res.ok <=>
                /\ Len(last.arg) % 2 = 0
                /\ \A i \in 1..Len(last.arg) : IsHexDigit(last.arg[i])
        /\ ~last.res.ok => last.res = Err("Parse")

\* C35: the text of an id has two lowercase hexadecimal digits for each
\* byte and nothing else, and from_str of the text gives the id back.
ThmC35_TextRoundTrip ==
    last.op = "to_string" =>
        /\ Len(last.res) = 2 * Len(last.arg)
        /\ \A i \in 1..Len(last.res) :
                \E d \in 1..16 : HexDigits[d] = last.res[i]
        /\ from_str(last.res) = Ok(last.arg)

\* an id of a byte below sixteen and a byte written with letters
WitC35_SmallAndLargeByte ==
    /\ last.op = "to_string"
    /\ Len(last.arg) = 2
    /\ last.arg[1] < 16
    /\ last.arg[2] > 160
    /\ last.res = <<"0", "9", "a", "b">>

====
